---- MODULE Spec2Model ----
(***************************************************************************)
(* PyspinCameras: the Camera wrapper (lifecycle, parameter setters), the   *)
(* CamImageEventHandler and the Cameras acquisition loop (acquire_images). *)
(* The vendor SDK (PySpin) is the environment: it decides what a grab      *)
(* returns, whether a call raises, and what access mode a node reports.    *)
(***************************************************************************)
EXTENDS Integers, Sequences, FiniteSets, TLC

\* ------------------------------------------------------------------ bounds
MaxCams == 2        \* cameras enumerated by the system
MaxImages == 2      \* largest num_images of a bounded run; rounds of an unbounded one
MaxEvents == 2      \* image events the SDK delivers during one behaviour
MaxIncomplete == 1  \* incomplete frames the SDK returns to grabs, and delivers as events
MaxVal == 2         \* largest numeric value requested of, or reported by, a node
MaxCalls == 1       \* setter calls made on one camera during one behaviour
NumPixelFormats == 2 \* entries of the PixelFormat enumeration
MaxFailures == 2    \* Camera creations that raise during one construction
MaxLoops == 2       \* for statements run over one Cameras object

Cams == 1..MaxCams

\* ------------------------------------------------------------------- state
VARIABLES
  camera_list,      \* Cameras.camera_list: sequence of camera ids
  save_folder,      \* TRUE iff Cameras.save_folder is not None
  queue_set,        \* TRUE iff Cameras.queue is not None
  queue,            \* the hand-off queue: the producing camera of each frame put, in order
  initialised,      \* cam.IsInitialized(), per camera
  streaming,        \* cam.IsStreaming(), per camera
  callback_set,     \* Camera.callback_set  (public attribute, __post_init__)
  u_callback_set,   \* Camera._callback_set ("unset" until set_callback_function)
  event_handler,    \* Camera.event_handler (NoHandler before one is created)
  acquiring,        \* Cameras.acquiring
  num_images,       \* argument of the running acquire_images
  iter,             \* _iter of acquire_images
  i,                \* index of the for loop over camera_list
  pc,               \* position of acquire_images: idle, while, for, done
  grabs,            \* GetNextImage calls issued, per camera
  rounds,           \* rounds whose for loop was entered
  obtained,         \* images returned by GetNextImage, per camera
  released,         \* Release calls, per camera
  incomplete,       \* images GetNextImage returned incomplete, per camera
  saved,            \* images written to the save folder, per camera
  ev_total,         \* image events the SDK delivered, per camera
  ev_incomplete,    \* of those, the incomplete ones
  sink_calls,       \* invocations of the sink callback, per camera
  raised,           \* where the vendor exception that ended the run was raised
  exit_reason,      \* why acquire_images returned
  dev,              \* node values of the device behind the camera being configured
  last,             \* the last recorded call: arguments, result, SDK calls issued
  calls,            \* setter calls made so far
  num_devices,      \* size of the CameraList system.GetCameras() returns
  stack,            \* active calls of set_up_cams_and_correct_errors, outermost
                    \* first: the index of the device each one's for loop is at
  failures,         \* Camera creations that raised so far
  recovery,         \* the last creation failure: device, message, recovery calls
  iter_counter,     \* Cameras.__iter_counter
  iter_end,         \* Cameras.__iter_end
  loop_state,       \* the caller's for loop over the Cameras object
  yielded,          \* what __next__ returned to the current for loop
  loops             \* for loops started so far

vars == <<camera_list, save_folder, queue_set, queue, initialised, streaming,
          callback_set, u_callback_set, event_handler, acquiring, num_images,
          iter, i, pc, grabs, rounds, obtained, released, incomplete, saved,
          ev_total, ev_incomplete, sink_calls, raised, exit_reason,
          dev, last, calls, num_devices, stack, failures, recovery,
          iter_counter, iter_end, loop_state, yielded, loops>>

camVars == <<initialised, streaming, callback_set, u_callback_set, event_handler>>
runVars == <<acquiring, num_images, iter, i, pc, rounds, raised, exit_reason>>
grabVars == <<grabs, obtained, released, incomplete, saved, queue>>
evVars == <<ev_total, ev_incomplete, sink_calls>>
cfgVars == <<camera_list, save_folder, queue_set>>
devVars == <<dev, last, calls>>
setupVars == <<num_devices, stack, failures, recovery>>
iterVars == <<iter_counter, iter_end, loop_state, yielded, loops>>

\* A camera's handler: its image counter and whether the SDK holds it registered.
NoHandler == [image_count |-> 0, registered |-> FALSE]

\* CamImageEventHandler.__init__: image counter 0
NewHandler(reg) == [image_count |-> 0, registered |-> reg]

\* CamImageEventHandler.get_image_count
get_image_count(h) == h.image_count

\* ------------------------------------------------------------- the device
\* The nodes the setters write.  BalanceRatio is one node whose target is
\* chosen by BalanceRatioSelector; its two targets are kept apart.
Nodes == {"AcquisitionMode", "AcquisitionFrameRateEnable", "AcquisitionFrameRate",
          "ExposureAuto", "ExposureTime", "BalanceWhiteAuto", "BalanceRatioSelector",
          "BalanceRatioRed", "BalanceRatioBlue", "GainAuto", "Gain", "GammaEnable",
          "Gamma", "StreamBufferHandlingMode", "TriggerMode", "TriggerSource",
          "GevSCPSPacketSize", "DeviceLinkThroughputLimit", "PixelFormat"}

\* Two device states a camera can be found in: the power-on defaults, and a
\* device an earlier session left triggered on line 2 with manual settings.
DefaultDev ==
  [n \in Nodes |->
     CASE n = "AcquisitionMode" -> "Continuous"
       [] n = "AcquisitionFrameRateEnable" -> FALSE
       [] n = "ExposureAuto" -> "Continuous"
       [] n = "BalanceWhiteAuto" -> "Continuous"
       [] n = "BalanceRatioSelector" -> "Red"
       [] n = "GainAuto" -> "Continuous"
       [] n = "GammaEnable" -> TRUE
       [] n = "StreamBufferHandlingMode" -> "OldestFirst"
       [] n = "TriggerMode" -> "Off"
       [] n = "TriggerSource" -> "Software"
       [] n = "PixelFormat" -> 0
       [] OTHER -> 1]

ConfiguredDev ==
  [n \in Nodes |->
     CASE n = "AcquisitionMode" -> "SingleFrame"
       [] n = "AcquisitionFrameRateEnable" -> TRUE
       [] n = "ExposureAuto" -> "Off"
       [] n = "BalanceWhiteAuto" -> "Off"
       [] n = "BalanceRatioSelector" -> "Blue"
       [] n = "GainAuto" -> "Off"
       [] n = "GammaEnable" -> FALSE
       [] n = "StreamBufferHandlingMode" -> "NewestOnly"
       [] n = "TriggerMode" -> "On"
       [] n = "TriggerSource" -> "Line2"
       [] n = "PixelFormat" -> 1
       [] OTHER -> 0]

\* node.SetValue(val) on device state d
SetValue(d, node, val) ==
  IF node = "BalanceRatio"
    THEN IF d["BalanceRatioSelector"] = "Red"
           THEN [d EXCEPT !["BalanceRatioRed"] = val]
           ELSE [d EXCEPT !["BalanceRatioBlue"] = val]
    ELSE [d EXCEPT ![node] = val]

Min(a, b) == IF a < b THEN a ELSE b

\* A setter body is a list of steps and the value returned after the last one.
\*   check: node.GetAccessMode() != RW  -> return False
\*   avail: an object the SDK hands out is None / invalid / unavailable -> return False
\*   write: node.SetValue(val)
Chk(node) == [k |-> "check", node |-> node, val |-> 0]
Av(what) == [k |-> "avail", node |-> what, val |-> 0]
Wr(node, val) == [k |-> "write", node |-> node, val |-> val]
Body(steps, ret) == [steps |-> steps, ret |-> ret]

Result(d, ret, denied, exc, log) ==
  [dev |-> d, ret |-> ret, denied |-> denied, raised |-> exc, log |-> log]

\* Runs a setter body inside its try/except: a failed check returns False, a
\* SetValue that raises SpinnakerException (the failAt-th one) is caught and
\* returns False.  ro: the nodes and objects the SDK reports not writable or
\* not available during this call.  log: the SetValue calls issued.
RECURSIVE Exec(_, _, _, _, _, _)
Exec(body, k, d, ro, failAt, log) ==
  IF k > Len(body.steps)
    THEN Result(d, body.ret, FALSE, FALSE, log)
    ELSE LET s == body.steps[k]
         IN CASE s.k = "check" ->
                   IF s.node \in ro
                     THEN Result(d, FALSE, TRUE, FALSE, log)
                     ELSE Exec(body, k + 1, d, ro, failAt, log)
              [] s.k = "avail" ->
                   IF s.node \in ro
                     THEN Result(d, FALSE, FALSE, FALSE, log)
                     ELSE Exec(body, k + 1, d, ro, failAt, log)
              [] s.k = "write" ->
                   IF Len(log) + 1 = failAt
                     THEN Result(d, FALSE, FALSE, TRUE, Append(log, <<s.node, s.val>>))
                     ELSE Exec(body, k + 1, SetValue(d, s.node, s.val), ro, failAt,
                               Append(log, <<s.node, s.val>>))

\* What a body can ask of the SDK
ChecksOf(body) == {body.steps[k].node : k \in {j \in 1..Len(body.steps) :
                                                 body.steps[j].k # "write"}}
\* Exec stops at the first refused step, so one refused step per call gives
\* every result a set of refused steps can give.
Refusals(body) == {{}} \cup {{n} : n \in ChecksOf(body)}
WritesOf(body) == Cardinality({j \in 1..Len(body.steps) : body.steps[j].k = "write"})

NoCall == [setter |-> "none", init |-> FALSE, ret |-> FALSE, denied |-> FALSE,
           raised |-> FALSE, propagated |-> FALSE, log |-> <<>>, pre |-> DefaultDev,
           mode |-> "", req |-> 0, max |-> 0, cam |-> 0, streaming |-> FALSE,
           registered |-> FALSE]

\* ------------------------------------------------------------------- Init
\* Cameras.__post_init__ / set_up_cams_and_correct_errors: at least one camera
\* (zero cameras exits the process); Camera.__post_init__ leaves every camera
\* deinitialised with callback_set False.
InitCommon ==
  /\ queue = <<>>
  /\ initialised = [c \in Cams |-> FALSE]
  /\ streaming = [c \in Cams |-> FALSE]
  /\ callback_set = [c \in Cams |-> FALSE]
  /\ u_callback_set = [c \in Cams |-> "unset"]
  /\ event_handler = [c \in Cams |-> NoHandler]
  /\ acquiring = FALSE
  /\ num_images = -1
  /\ iter = -1
  /\ i = 0
  /\ pc = "idle"
  /\ grabs = [c \in Cams |-> 0]
  /\ rounds = 0
  /\ obtained = [c \in Cams |-> 0]
  /\ released = [c \in Cams |-> 0]
  /\ incomplete = [c \in Cams |-> 0]
  /\ saved = [c \in Cams |-> 0]
  /\ ev_total = [c \in Cams |-> 0]
  /\ ev_incomplete = [c \in Cams |-> 0]
  /\ sink_calls = [c \in Cams |-> 0]
  /\ raised = "none"
  /\ exit_reason = "none"
  /\ last = NoCall
  /\ calls = 0

\* No creation failure recorded
NoRecovery == [cam |-> 0, msg |-> {}, calls |-> {}, raised |-> FALSE]

\* Cameras.__post_init__ has returned, no Camera creation having raised:
\* set_up_cams_and_correct_errors built camera_list from the enumerated
\* devices, and __iter_counter = 0, __iter_end = len(camera_list).
Constructed ==
  /\ num_devices = Len(camera_list)
  /\ stack = <<>>
  /\ failures = 0
  /\ recovery = NoRecovery
  /\ iter_counter = 0
  /\ iter_end = Len(camera_list)
  /\ loop_state = "none"
  /\ yielded = <<>>
  /\ loops = 0

Init ==
  /\ InitCommon
  /\ camera_list \in {[k \in 1..n |-> k] : n \in 1..MaxCams}
  /\ save_folder \in BOOLEAN
  /\ queue_set \in BOOLEAN
  /\ dev = DefaultDev
  /\ Constructed

RECURSIVE SumUpTo(_, _)
SumUpTo(f, k) == IF k = 0 THEN 0 ELSE f[k] + SumUpTo(f, k - 1)
Total(f) == SumUpTo(f, MaxCams)

InList(c) == \E k \in 1..Len(camera_list) : camera_list[k] = c

\* --------------------------------------------------------- Camera lifecycle
\* Camera.initialise calls Init only `if not self.cam.IsInitialized()`
CallsInitAlways(init) == TRUE
CallsInit(init) == ~init

\* Camera.initialise returns True unless Init raised (ok = FALSE); the camera
\* is initialised afterwards exactly when it returned True.
initialise_ret(init, ok) == ~CallsInit(init) \/ ok

\* A call on a camera of the list whose result the caller looks at
CanCall(c) == pc = "idle" /\ InList(c) /\ calls < MaxCalls

\* Camera.initialise, called on one camera
initialise(c, ok) ==
  /\ CanCall(c)
  /\ initialised' = [initialised EXCEPT ![c] = initialise_ret(initialised[c], ok)]
  /\ last' = [NoCall EXCEPT !.setter = "initialise", !.init = initialised[c],
                            !.ret = initialise_ret(initialised[c], ok),
                            !.raised = CallsInit(initialised[c]) /\ ~ok,
                            !.log = IF CallsInit(initialised[c]) THEN <<"Init">> ELSE <<>>,
                            !.pre = dev, !.cam = c, !.streaming = streaming[c]]
  /\ calls' = calls + 1
  /\ UNCHANGED <<streaming, callback_set, u_callback_set, event_handler, dev>>
  /\ UNCHANGED <<cfgVars, setupVars, iterVars, runVars, grabVars, evVars>>

\* Cameras.initialise_cameras: cam.initialise() for each camera of the list,
\* the results discarded; oks[c] = FALSE is Init raising on camera c.
initialise_cameras(oks) ==
  /\ pc = "idle"
  /\ camera_list # <<>>
  /\ initialised' = [c \in Cams |-> IF InList(c)
                                       THEN initialise_ret(initialised[c], oks[c])
                                       ELSE initialised[c]]
  /\ UNCHANGED <<streaming, callback_set, u_callback_set, event_handler>>
  /\ UNCHANGED <<cfgVars, setupVars, iterVars, runVars, grabVars, evVars, devVars>>

\* Camera.set_callback_function: func must be callable and the camera
\* initialised; creates the handler, registers it (ok = FALSE: the SDK raises)
\* and sets _callback_set.  callback_set is not written.  One registration per
\* camera is explored (the guard on registered).
set_callback_function(c, callable, ok) ==
  /\ pc = "idle"
  /\ InList(c)
  /\ ~event_handler[c].registered
  /\ IF callable /\ initialised[c]
       THEN /\ event_handler' = [event_handler EXCEPT ![c] = NewHandler(ok)]
            /\ u_callback_set' = [u_callback_set EXCEPT ![c] = IF ok THEN "true" ELSE @]
       ELSE UNCHANGED <<event_handler, u_callback_set>>
  /\ UNCHANGED <<initialised, streaming, callback_set>>
  /\ UNCHANGED <<cfgVars, setupVars, iterVars, runVars, grabVars, evVars, devVars>>

\* Camera.deinitialise: on an initialised camera reads self._callback_set (an
\* attribute only set_callback_function creates: reading it before that raises
\* AttributeError, which the except clause does not catch), unregisters the
\* handler (the SDK raises for a handler that is not registered) and DeInits.
\* There is no test of IsStreaming: DeInit is called on a streaming camera
\* too, where the SDK either raises (deinit_ok = FALSE) or tears the stream
\* down with the camera.
deinitialise(c, deinit_ok) ==
  /\ pc = "idle"
  /\ InList(c)
  /\ LET noattr == initialised[c] /\ u_callback_set[c] = "unset"
         unreg == initialised[c] /\ u_callback_set[c] = "true"
         unregraises == unreg /\ ~event_handler[c].registered
         deinit == initialised[c] /\ ~noattr /\ ~unregraises
         done == deinit /\ (streaming[c] => deinit_ok)
     IN /\ event_handler' = [event_handler EXCEPT ![c].registered =
                               IF unreg THEN FALSE ELSE @]
        /\ initialised' = [initialised EXCEPT ![c] = IF done THEN FALSE ELSE @]
        /\ streaming' = [streaming EXCEPT ![c] = IF done THEN FALSE ELSE @]
        /\ last' = [NoCall EXCEPT !.setter = "deinitialise", !.init = initialised[c],
                                  !.ret = done, !.raised = unregraises \/ (deinit /\ ~done),
                                  !.propagated = noattr, !.pre = dev, !.cam = c,
                                  !.streaming = streaming[c],
                                  !.registered = event_handler[c].registered,
                                  !.log = (IF unreg THEN <<"UnregisterEventHandler">>
                                                    ELSE <<>>)
                                          \o (IF deinit THEN <<"DeInit">> ELSE <<>>)]
  /\ UNCHANGED <<callback_set, u_callback_set, dev, calls>>
  /\ UNCHANGED <<cfgVars, setupVars, iterVars, runVars, grabVars, evVars>>

\* Camera.start_acquisition: BeginAcquisition, the SDK's exception caught
start_acquisition(c) ==
  /\ pc = "idle"
  /\ InList(c)
  /\ streaming' = [streaming EXCEPT ![c] = IF initialised[c] THEN TRUE ELSE @]
  /\ UNCHANGED <<initialised, callback_set, u_callback_set, event_handler>>
  /\ UNCHANGED <<cfgVars, setupVars, iterVars, runVars, grabVars, evVars, devVars>>

\* Camera.stop_acquisition: EndAcquisition, the SDK's exception caught
stop_acquisition(c) ==
  /\ pc = "idle"
  /\ InList(c)
  /\ streaming' = [streaming EXCEPT ![c] = FALSE]
  /\ UNCHANGED <<initialised, callback_set, u_callback_set, event_handler>>
  /\ UNCHANGED <<cfgVars, setupVars, iterVars, runVars, grabVars, evVars, devVars>>

\* What GetNextImage can do in Camera.get_next_image
GrabOutcomes == {"grab_raises", "incomplete", "complete"}

\* Camera.get_next_image: False on an uninitialised camera; else GetNextImage
\* (which raises on a camera that is not streaming), None for an incomplete
\* image, the image itself for a complete one.  No Release is called.
get_next_image(c, outcome) ==
  /\ pc = "idle"
  /\ InList(c)
  /\ (initialised[c] /\ ~streaming[c]) => outcome = "grab_raises"
  /\ last' = [NoCall EXCEPT !.setter = "get_next_image", !.init = initialised[c],
                            !.cam = c, !.streaming = streaming[c], !.pre = dev,
                            !.registered = event_handler[c].registered,
                            !.mode = IF initialised[c] THEN outcome ELSE "",
                            !.ret = initialised[c] /\ outcome = "complete",
                            !.raised = initialised[c] /\ outcome = "grab_raises",
                            !.log = IF initialised[c] THEN <<"GetNextImage">> ELSE <<>>]
  /\ UNCHANGED <<camVars, dev, calls>>
  /\ UNCHANGED <<cfgVars, setupVars, iterVars, runVars, grabVars, evVars>>

\* Camera.__del__, run when the last reference to the camera goes: stop_acquisition,
\* then deinitialise, each inside a bare try/except that swallows whatever is
\* raised (the AttributeError on _callback_set included), then `del self.cam`.
Camera_del(c) ==
  /\ pc = "idle"
  /\ InList(c)
  /\ LET noattr == initialised[c] /\ u_callback_set[c] = "unset"
         unreg == initialised[c] /\ u_callback_set[c] = "true"
         unregraises == unreg /\ ~event_handler[c].registered
         deinit == initialised[c] /\ ~noattr /\ ~unregraises
     IN /\ streaming' = [streaming EXCEPT ![c] = FALSE]
        /\ event_handler' = [event_handler EXCEPT ![c].registered =
                               IF unreg THEN FALSE ELSE @]
        /\ initialised' = [initialised EXCEPT ![c] = IF deinit THEN FALSE ELSE @]
        /\ last' = [NoCall EXCEPT !.setter = "__del__", !.init = initialised[c],
                                  !.pre = dev, !.cam = c, !.streaming = streaming[c],
                                  !.log = <<"EndAcquisition">>
                                          \o (IF unreg THEN <<"UnregisterEventHandler">>
                                                       ELSE <<>>)
                                          \o (IF deinit THEN <<"DeInit">> ELSE <<>>)]
  /\ camera_list' = SelectSeq(camera_list, LAMBDA x : x # c)
  /\ UNCHANGED <<save_folder, queue_set, callback_set, u_callback_set, dev, calls>>
  /\ UNCHANGED <<runVars, grabVars, evVars, setupVars, iterVars>>

\* Cameras, each driven through the lifecycle calls of Camera.
LifecycleInit ==
  /\ InitCommon
  /\ camera_list \in {[k \in 1..n |-> k] : n \in 1..MaxCams}
  /\ save_folder = FALSE
  /\ queue_set = FALSE
  /\ dev = DefaultDev
  /\ Constructed

LifecycleNext ==
  \/ \E oks \in [Cams -> BOOLEAN] : initialise_cameras(oks)
  \/ \E c \in Cams, ok \in BOOLEAN : initialise(c, ok)
  \/ \E c \in Cams, callable \in BOOLEAN, ok \in BOOLEAN :
       set_callback_function(c, callable, ok)
  \/ \E c \in Cams : start_acquisition(c)
  \/ \E c \in Cams : stop_acquisition(c)
  \/ \E c \in Cams, deinit_ok \in BOOLEAN : deinitialise(c, deinit_ok)
  \/ \E c \in Cams : Camera_del(c)
  \/ \E c \in Cams, outcome \in GrabOutcomes : get_next_image(c, outcome)

LifecycleSpec == LifecycleInit /\ [][LifecycleNext]_vars

\* ------------------------------------------------------------------ setters
AcqModeArgs == {"continuous", "single", "multiple", "bad"}
AutoModes == {"continuous", "once", "off"}
AutoArgs == AutoModes \cup {"bad"}
BufferArgs == {"newest-only", "newest-first", "oldest-first", "oldest-overwrite", "bad"}
TriggerArgs == {"off", "on", "bad"}
SourceArgs == {"hardware", "software", "bad"}
LineArgs == -1..4
Values == 0..MaxVal        \* requested numeric values
Maxes == 1..MaxVal         \* what node.GetMax() can report
\* An argument the call does not read is left at its default (0, "hardware",
\* -1), and GetMax is only asked where a value is clamped.
ValuesIf(used) == IF used THEN Values ELSE {0}
MaxesIf(used) == IF used THEN Maxes ELSE {MaxVal}

AutoValue(m) ==
  CASE m = "continuous" -> "Continuous" [] m = "once" -> "Once" [] m = "off" -> "Off"

\* set_acquisition_mode: an unrecognised mode prints and falls through to
\* `return True`.
set_acquisition_mode_body(acq_mode) ==
  IF acq_mode \in {"continuous", "single", "multiple"}
    THEN Body(<<Chk("AcquisitionMode"),
                Wr("AcquisitionMode",
                   CASE acq_mode = "continuous" -> "Continuous"
                     [] acq_mode = "single" -> "SingleFrame"
                     [] acq_mode = "multiple" -> "MultiFrame")>>, TRUE)
    ELSE Body(<<>>, TRUE)

\* set_frame_rate: frame_rate is written as given
set_frame_rate_body(frame_rate) ==
  Body(<<Chk("AcquisitionFrameRateEnable"), Wr("AcquisitionFrameRateEnable", TRUE),
         Chk("AcquisitionFrameRate"), Wr("AcquisitionFrameRate", frame_rate)>>, TRUE)

\* set_exposure: exposure time min(GetMax(), exp_time), only for mode off
set_exposure_body(exp_mode, exp_time, M) ==
  IF exp_mode \notin AutoModes
    THEN Body(<<Chk("ExposureAuto")>>, FALSE)
    ELSE LET auto == <<Chk("ExposureAuto"), Wr("ExposureAuto", AutoValue(exp_mode))>>
         IN IF exp_mode = "off" /\ exp_time > 0
              THEN Body(auto \o <<Chk("ExposureTime"),
                                  Wr("ExposureTime", Min(M, exp_time))>>, TRUE)
              ELSE IF exp_mode = "off" /\ exp_time = 0
                     THEN Body(auto, FALSE)
                     ELSE Body(auto, TRUE)

\* set_white_balance: no access check before BalanceWhiteAuto is written
set_white_balance_body(bal_mode, red_selector, blue_selector) ==
  IF bal_mode \notin AutoModes
    THEN Body(<<>>, FALSE)
    ELSE LET auto == <<Wr("BalanceWhiteAuto", AutoValue(bal_mode))>>
         IN IF bal_mode = "off" /\ red_selector > 0 /\ blue_selector > 0
              THEN Body(auto \o <<Chk("BalanceRatioSelector"),
                                  Wr("BalanceRatioSelector", "Red"),
                                  Wr("BalanceRatio", red_selector),
                                  Wr("BalanceRatioSelector", "Blue"),
                                  Wr("BalanceRatio", blue_selector)>>, TRUE)
              ELSE Body(auto, TRUE)

\* set_gain: GainAuto is written before Gain's access mode is checked; any
\* call that does not write Gain returns False.
set_gain_body(gain_mode, gain, M) ==
  IF gain_mode \notin AutoModes
    THEN Body(<<>>, FALSE)
    ELSE LET auto == <<Wr("GainAuto", AutoValue(gain_mode)), Chk("Gain")>>
         IN IF gain_mode = "off" /\ gain > 0
              THEN Body(auto \o <<Wr("Gain", Min(M, gain))>>, TRUE)
              ELSE Body(auto, FALSE)

\* set_gamma
set_gamma_body(gamma_enable, gamma, M) ==
  LET en == <<Wr("GammaEnable", gamma_enable), Chk("Gamma")>>
  IN IF gamma_enable /\ gamma > 0
       THEN Body(en \o <<Wr("Gamma", Min(M, gamma))>>, TRUE)
       ELSE Body(en, FALSE)

\* set_stream_buffer_mode: an unrecognised mode prints and returns True
set_stream_buffer_mode_body(buffer_mode) ==
  LET pre == <<Av("TLStreamNodeMap"), Chk("StreamBufferHandlingMode"),
               Av("StreamBufferHandlingMode.IsValid")>>
  IN IF buffer_mode = "bad"
       THEN Body(pre, TRUE)
       ELSE Body(pre \o <<Wr("StreamBufferHandlingMode",
                    CASE buffer_mode = "newest-only" -> "NewestOnly"
                      [] buffer_mode = "newest-first" -> "NewestFirst"
                      [] buffer_mode = "oldest-first" -> "OldestFirst"
                      [] buffer_mode = "oldest-overwrite" -> "OldestFirstOverwrite")>>,
                 TRUE)

\* "Ensure trigger mode off in order to update": the access check of
\* TriggerMode and the write of TriggerMode_Off that open set_trigger_mode
DisableTriggerUnwritten == <<Chk("TriggerMode")>>
DisableTrigger == <<Chk("TriggerMode"), Wr("TriggerMode", "Off")>>

\* set_trigger_mode: trigger mode off first; for "on", the selector check, the
\* write of TriggerSelector_FrameStart to TriggerSource, the source, then on.
set_trigger_mode_body(trigger_mode, source, line) ==
  LET off == DisableTrigger
      sel == off \o <<Chk("TriggerSelector"), Wr("TriggerSource", "FrameStart"),
                      Chk("TriggerSource")>>
      on == <<Wr("TriggerMode", "On")>>
  IN IF trigger_mode = "off" THEN Body(off, TRUE)
     ELSE IF trigger_mode # "on" THEN Body(off, FALSE)
     ELSE IF source = "hardware" /\ line = -1 THEN Body(off, FALSE)
     ELSE IF source = "hardware"
       THEN IF line \in 0..3
              THEN Body(sel \o <<Wr("TriggerSource",
                          CASE line = 0 -> "Line0" [] line = 1 -> "Line1"
                            [] line = 2 -> "Line2" [] line = 3 -> "Line3")>> \o on, TRUE)
              ELSE Body(sel, FALSE)
     ELSE IF source = "software"
       THEN Body(sel \o <<Wr("TriggerSource", "Software")>> \o on, TRUE)
     ELSE Body(sel, FALSE)

\* set_packet_size
set_packet_size_body(packet_size) ==
  Body(<<Chk("GevSCPSPacketSize"), Wr("GevSCPSPacketSize", packet_size)>>, TRUE)

\* set_device_throughput_limit
set_device_throughput_limit_body(limit) ==
  Body(<<Chk("DeviceLinkThroughputLimit"), Wr("DeviceLinkThroughputLimit", limit)>>, TRUE)

\* set_pixel_format: the format must index the entries and its entry be available
set_pixel_format_body(pixel_format) ==
  IF pixel_format >= NumPixelFormats
    THEN Body(<<Chk("PixelFormat")>>, FALSE)
    ELSE Body(<<Chk("PixelFormat"), Av("PixelFormatEntry"),
                Wr("PixelFormat", pixel_format)>>, TRUE)

\* `if not self.is_initialised(): return False` opens every setter
ChecksInitialisedButPixelFormat(setter) == setter # "set_pixel_format"
ChecksInitialised(setter) == TRUE

\* One call of a setter on camera c, with what the SDK does during the call.
Call(c, setter, body, mode, req, M) ==
  /\ \E ro \in Refusals(body), failAt \in 0..WritesOf(body) :
       \E r \in {IF ChecksInitialised(setter) /\ ~initialised[c]
                    THEN Result(dev, FALSE, FALSE, FALSE, <<>>)
                    ELSE Exec(body, 1, dev, ro, failAt, <<>>)} :
          /\ dev' = r.dev
          /\ last' = [setter |-> setter, init |-> initialised[c], ret |-> r.ret,
                      denied |-> r.denied, raised |-> r.raised, propagated |-> FALSE,
                      log |-> r.log, pre |-> dev, mode |-> mode, req |-> req, max |-> M,
                      cam |-> c, streaming |-> streaming[c],
                      registered |-> event_handler[c].registered]
  /\ calls' = calls + 1
  /\ UNCHANGED <<cfgVars, setupVars, iterVars, camVars, runVars, grabVars, evVars>>

set_acquisition_mode(c, acq_mode) ==
  /\ CanCall(c)
  /\ Call(c, "set_acquisition_mode", set_acquisition_mode_body(acq_mode), acq_mode, 0, 0)
set_frame_rate(c, frame_rate, M) ==
  /\ CanCall(c)
  /\ Call(c, "set_frame_rate", set_frame_rate_body(frame_rate), "", frame_rate, M)
set_exposure(c, exp_mode, exp_time, M) ==
  /\ CanCall(c)
  /\ Call(c, "set_exposure", set_exposure_body(exp_mode, exp_time, M), exp_mode, exp_time, M)
set_white_balance(c, bal_mode, red_selector, blue_selector) ==
  /\ CanCall(c)
  /\ Call(c, "set_white_balance",
          set_white_balance_body(bal_mode, red_selector, blue_selector), bal_mode, 0, 0)
set_gain(c, gain_mode, gain, M) ==
  /\ CanCall(c)
  /\ Call(c, "set_gain", set_gain_body(gain_mode, gain, M), gain_mode, gain, M)
set_gamma(c, gamma_enable, gamma, M) ==
  /\ CanCall(c)
  /\ Call(c, "set_gamma", set_gamma_body(gamma_enable, gamma, M), "", gamma, M)
set_stream_buffer_mode(c, buffer_mode) ==
  /\ CanCall(c)
  /\ Call(c, "set_stream_buffer_mode", set_stream_buffer_mode_body(buffer_mode), buffer_mode, 0, 0)
set_trigger_mode(c, trigger_mode, source, line) ==
  /\ CanCall(c)
  /\ Call(c, "set_trigger_mode", set_trigger_mode_body(trigger_mode, source, line),
          trigger_mode, 0, 0)
set_packet_size(c, packet_size) ==
  /\ CanCall(c)
  /\ Call(c, "set_packet_size", set_packet_size_body(packet_size), "", 0, 0)
set_device_throughput_limit(c, limit) ==
  /\ CanCall(c)
  /\ Call(c, "set_device_throughput_limit", set_device_throughput_limit_body(limit), "", 0, 0)
set_pixel_format(c, pixel_format) ==
  /\ CanCall(c)
  /\ Call(c, "set_pixel_format", set_pixel_format_body(pixel_format), "", 0, 0)

Setters == {"set_acquisition_mode", "set_frame_rate", "set_exposure",
            "set_white_balance", "set_gain", "set_gamma", "set_stream_buffer_mode",
            "set_trigger_mode", "set_packet_size", "set_device_throughput_limit",
            "set_pixel_format"}

\* A single camera, found in either device state, configured through its setters.
SetterInit ==
  /\ InitCommon
  /\ camera_list = <<1>>
  /\ save_folder = FALSE
  /\ queue_set = FALSE
  /\ dev \in {DefaultDev, ConfiguredDev}
  /\ Constructed

SetterNext ==
  \/ \E oks \in [Cams -> BOOLEAN] : initialise_cameras(oks)
  \/ \E c \in Cams, callable \in BOOLEAN, ok \in BOOLEAN :
       set_callback_function(c, callable, ok)
  \/ \E c \in Cams : deinitialise(c, TRUE)
  \/ \E c \in Cams, m \in AcqModeArgs : set_acquisition_mode(c, m)
  \/ \E c \in Cams, v \in Values, M \in Maxes : set_frame_rate(c, v, M)
  \/ \E c \in Cams, m \in AutoArgs : \E v \in ValuesIf(m = "off") :
       \E M \in MaxesIf(m = "off" /\ v > 0) : set_exposure(c, m, v, M)
  \/ \E c \in Cams, m \in AutoArgs : \E r \in ValuesIf(m = "off"), b \in ValuesIf(m = "off") :
       set_white_balance(c, m, r, b)
  \/ \E c \in Cams, m \in AutoArgs : \E v \in ValuesIf(m = "off") :
       \E M \in MaxesIf(m = "off" /\ v > 0) : set_gain(c, m, v, M)
  \/ \E c \in Cams, e \in BOOLEAN : \E v \in ValuesIf(e) :
       \E M \in MaxesIf(e /\ v > 0) : set_gamma(c, e, v, M)
  \/ \E c \in Cams, m \in BufferArgs : set_stream_buffer_mode(c, m)
  \/ \E c \in Cams, m \in TriggerArgs :
       \E src \in IF m = "on" THEN SourceArgs ELSE {"hardware"} :
         \E line \in IF m = "on" /\ src = "hardware" THEN LineArgs ELSE {-1} :
           set_trigger_mode(c, m, src, line)
  \/ \E c \in Cams, v \in Values : set_packet_size(c, v)
  \/ \E c \in Cams, v \in Values : set_device_throughput_limit(c, v)
  \/ \E c \in Cams, pf \in 0..NumPixelFormats : set_pixel_format(c, pf)

SetterSpec == SetterInit /\ [][SetterNext]_vars

\* Cameras.release_all_cameras
release_all_cameras ==
  /\ pc = "idle"
  /\ stack = <<>>
  /\ camera_list # <<>>
  /\ camera_list' = <<>>
  /\ UNCHANGED <<save_folder, queue_set, camVars, runVars, grabVars, evVars, devVars>>
  /\ UNCHANGED <<setupVars, iterVars>>

\* ------------------------------------------------------ CamImageEventHandler
\* OnImageEvent forwards a frame to the sink, and counts it, iff it is complete.
HandlerForwards(complete) == complete

\* CamImageEventHandler.OnImageEvent, run by the SDK's thread for a registered
\* handler of a streaming camera.  A failed conversion is swallowed and the
\* original frame forwarded, so the conversion does not change what is counted.
OnImageEvent(c, complete) ==
  /\ event_handler[c].registered
  /\ streaming[c]
  /\ Total(ev_total) < MaxEvents
  /\ ~complete => Total(ev_incomplete) < MaxIncomplete
  /\ ev_total' = [ev_total EXCEPT ![c] = @ + 1]
  /\ ev_incomplete' = [ev_incomplete EXCEPT ![c] = IF complete THEN @ ELSE @ + 1]
  /\ IF HandlerForwards(complete)
       THEN /\ sink_calls' = [sink_calls EXCEPT ![c] = @ + 1]
            /\ event_handler' = [event_handler EXCEPT ![c].image_count = @ + 1]
       ELSE UNCHANGED <<sink_calls, event_handler>>
  /\ UNCHANGED <<initialised, streaming, callback_set, u_callback_set>>
  /\ UNCHANGED <<cfgVars, setupVars, iterVars, runVars, grabVars, devVars>>

\* ------------------------------------------------------------ acquire_images
\* Camera.start_acquisition inside _begin_capture: BeginAcquisition succeeds on
\* an initialised camera; otherwise the SDK raises, which start_acquisition
\* catches, and the camera is left as it was.
begin_capture_fails(c) == streaming[c]
begin_capture(c) == IF initialised[c] THEN TRUE ELSE streaming[c]

\* "check if cameras exist": len(self.camera_list) == 0
NoCamerasUnchecked == FALSE
NoCameras == Len(camera_list) = 0

\* acquire_images up to the loop: return on an empty camera_list, else
\* _begin_capture and _iter = -1.
acquire_images(n) ==
  /\ pc = "idle"
  /\ num_images' = n
  /\ IF NoCameras
       THEN /\ pc' = "done"
            /\ exit_reason' = "nocams"
            /\ UNCHANGED <<streaming, acquiring, iter>>
       ELSE /\ streaming' = [c \in Cams |-> IF InList(c) THEN begin_capture(c)
                                                        ELSE streaming[c]]
            /\ acquiring' = TRUE
            /\ iter' = -1
            /\ pc' = "while"
            /\ UNCHANGED exit_reason
  /\ UNCHANGED <<initialised, callback_set, u_callback_set, event_handler>>
  /\ UNCHANGED <<i, rounds, raised, cfgVars, setupVars, iterVars, grabVars, evVars, devVars>>

\* "check if we have enough images": num_images != -1 and num_images == _iter
EnoughImagesLate(n, it) == n # -1 /\ n + 1 = it
EnoughImages(n, it) == n # -1 /\ n = it

\* One evaluation of `while self.acquiring`, the increment of _iter and the
\* image-count check.  An unbounded run is explored for MaxImages rounds.
LoopCheck ==
  /\ pc = "while"
  /\ acquiring => (num_images # -1 \/ iter + 1 < MaxImages)
  /\ IF ~acquiring
       THEN /\ pc' = "done"
            /\ exit_reason' = IF exit_reason = "none" THEN "flag" ELSE exit_reason
            /\ UNCHANGED <<acquiring, iter, i, rounds>>
       ELSE /\ iter' = iter + 1
            /\ IF EnoughImages(num_images, iter + 1)
                 THEN /\ acquiring' = FALSE
                      /\ pc' = "done"
                      /\ exit_reason' = "count"
                      /\ UNCHANGED <<i, rounds>>
                 ELSE /\ i' = 1
                      /\ pc' = "for"
                      /\ rounds' = rounds + 1
                      /\ UNCHANGED <<acquiring, exit_reason>>
  /\ UNCHANGED <<num_images, raised, cfgVars, setupVars, iterVars, camVars, grabVars, evVars, devVars>>

\* What the SDK and the conversion can do with one grab.
Outcomes == {"grab_raises", "incomplete", "convert_raises", "save_raises", "complete"}

\* The frame reaches the save folder and the queue only in the else branch of
\* IsIncomplete(), after Convert and Save returned.
DeliversIncomplete(outcome) == outcome \in {"complete", "incomplete"}
Delivers(outcome) == outcome = "complete"

\* image_result.Release() is the statement after the if/else: it is reached
\* when nothing before it raised.
Releases(outcome) == outcome \in {"complete", "incomplete"}

\* The try block encloses the whole loop: a SpinnakerException from
\* GetNextImage, Convert or Save leaves the loop for the except clause.
Raises(outcome) == outcome \in {"grab_raises", "convert_raises", "save_raises"}

\* `if self.camera_list[i].callback_set`: the flag the loop reads
IsEventDriven(c) == callback_set[c]

\* continue with the next camera, or back to the while test after the last one
Advance ==
  IF i < Len(camera_list)
    THEN i' = i + 1 /\ pc' = "for"
    ELSE i' = i /\ pc' = "while"

\* One iteration of `for i, cam in enumerate(self.camera_list)`.
Visit(outcome) ==
  /\ pc = "for"
  /\ LET c == camera_list[i]
     IN IF IsEventDriven(c)
          THEN /\ outcome = "complete"
               /\ IF get_image_count(event_handler[c]) = num_images
                    THEN /\ acquiring' = FALSE
                         /\ exit_reason' = "handler"
                         /\ pc' = "while"
                         /\ i' = i
                    ELSE /\ Advance
                         /\ UNCHANGED <<acquiring, exit_reason>>
               /\ UNCHANGED <<raised, grabVars>>
          ELSE /\ ~streaming[c] => outcome = "grab_raises"
               /\ outcome = "save_raises" => save_folder
               /\ outcome = "incomplete" => Total(incomplete) < MaxIncomplete
               /\ grabs' = [grabs EXCEPT ![c] = @ + 1]
               /\ obtained' = [obtained EXCEPT ![c] =
                                 IF outcome = "grab_raises" THEN @ ELSE @ + 1]
               /\ incomplete' = [incomplete EXCEPT ![c] =
                                   IF outcome = "incomplete" THEN @ + 1 ELSE @]
               /\ saved' = [saved EXCEPT ![c] =
                              IF Delivers(outcome) /\ save_folder THEN @ + 1 ELSE @]
               /\ queue' = IF Delivers(outcome) /\ queue_set
                             THEN Append(queue, c) ELSE queue
               /\ released' = [released EXCEPT ![c] =
                                 IF Releases(outcome) THEN @ + 1 ELSE @]
               /\ IF Raises(outcome)
                    THEN /\ raised' = IF outcome = "grab_raises" THEN "grab"
                                      ELSE IF outcome = "convert_raises" THEN "convert"
                                      ELSE "save"
                         /\ exit_reason' = "exception"
                         /\ pc' = "done"
                         /\ i' = i
                    ELSE /\ Advance
                         /\ UNCHANGED <<raised, exit_reason>>
               /\ UNCHANGED acquiring
  /\ UNCHANGED <<num_images, iter, rounds, cfgVars, setupVars, iterVars, camVars, evVars, devVars>>

\* the value `except KeyboardInterrupt` leaves in self.acquiring
InterruptedAcquiringKept == acquiring
InterruptedAcquiring == FALSE

\* `except KeyboardInterrupt`: the flag is cleared and acquire_images returns.
KeyboardInterrupt ==
  /\ pc \in {"while", "for"}
  /\ acquiring' = InterruptedAcquiring
  /\ exit_reason' = "interrupt"
  /\ pc' = "done"
  /\ UNCHANGED <<num_images, iter, i, rounds, raised>>
  /\ UNCHANGED <<cfgVars, setupVars, iterVars, camVars, grabVars, evVars, devVars>>

Next ==
  \/ \E oks \in [Cams -> BOOLEAN] : initialise_cameras(oks)
  \/ \E c \in Cams, callable \in BOOLEAN, ok \in BOOLEAN :
       set_callback_function(c, callable, ok)
  \/ release_all_cameras
  \/ \E c \in Cams, complete \in BOOLEAN : OnImageEvent(c, complete)
  \/ \E n \in -1..MaxImages : acquire_images(n)
  \/ LoopCheck
  \/ \E outcome \in Outcomes : Visit(outcome)
  \/ KeyboardInterrupt

Spec == Init /\ [][Next]_vars

\* Cameras._stop_capture, called by another thread at any point of a run (or
\* outside one): stop_acquisition on every camera of the list, then the
\* acquiring flag is cleared.
stop_capture ==
  /\ camera_list # <<>>
  /\ streaming' = [c \in Cams |-> IF InList(c) THEN FALSE ELSE streaming[c]]
  /\ acquiring' = FALSE
  /\ UNCHANGED <<initialised, callback_set, u_callback_set, event_handler>>
  /\ UNCHANGED <<num_images, iter, i, pc, rounds, raised, exit_reason>>
  /\ UNCHANGED <<cfgVars, setupVars, iterVars, grabVars, evVars, devVars>>

\* The polling coordinator with a second thread that stops the capture.
StopNext ==
  \/ \E oks \in [Cams -> BOOLEAN] : initialise_cameras(oks)
  \/ \E n \in -1..MaxImages : acquire_images(n)
  \/ LoopCheck
  \/ \E outcome \in Outcomes : Visit(outcome)
  \/ stop_capture

StopSpec == Init /\ [][StopNext]_vars

\* ------------------------------------------------- Cameras construction
\* Cameras.pyspin_errors, in the dict's (insertion) order
pyspin_errors ==
  << <<"Camera is on a wrong subnet.", "ip">>,
     <<"GenICam::OutOfRangeException=", "range">>,
     <<"Please try reconnecting the device.", "range">> >>

\* A vendor exception's message, str(ex).split("Spinnaker: ")[1], is modelled
\* by the set of table keys that occur in it as substrings (PySpin prefixes
\* every message with "Spinnaker: ").
Msgs == SUBSET {pyspin_errors[k][1] : k \in 1..Len(pyspin_errors)}

\* The for loop over pyspin_errors.items(): every matching entry overwrites
\* e_type, so the last matching entry decides.
RECURSIVE ScanErrors(_, _, _)
ScanErrors(msg, k, t) ==
  IF k > Len(pyspin_errors) THEN t
  ELSE ScanErrors(msg, k + 1, IF pyspin_errors[k][1] \in msg THEN pyspin_errors[k][2] ELSE t)

e_type(msg) == ScanErrors(msg, 1, "")

\* The two ifs that follow the classification
RecoveryCalls(t) ==
  (IF t = "range" THEN {"reset_cam"} ELSE {}) \cup
  (IF t = "ip" THEN {"force_ip_by_cam"} ELSE {})

\* set_up_cams_and_correct_errors is running (some call of it is active)
InSetup == stack # <<>>

\* the constructor has returned the Cameras object to its caller
Returned == stack = <<>> /\ ~recovery.raised

Top == stack[Len(stack)]

\* One pass of the for loop in which Camera(...) does not raise: the else
\* branch appends the new Camera.
create_camera ==
  /\ InSetup
  /\ Top <= num_devices
  /\ camera_list' = Append(camera_list, Top)
  /\ stack' = [stack EXCEPT ![Len(stack)] = @ + 1]
  /\ UNCHANGED <<num_devices, failures, recovery>>
  /\ UNCHANGED <<save_folder, queue_set, camVars, runVars, grabVars, evVars, devVars, iterVars>>

\* One pass in which Camera(...) raises a SpinnakerException with message msg:
\* classify, call the recovery function, sleep, and call
\* set_up_cams_and_correct_errors again, which empties camera_list and starts
\* its own for loop. reset_cam and force_ip_by_cam talk to the device outside
\* any try (cam.Init(), GevPersistentIPAddress.GetValue()); recovery_ok = FALSE
\* is such a call raising, which leaves the except block, every active call
\* and the constructor.
create_camera_fails(msg, recovery_ok) ==
  /\ InSetup
  /\ Top <= num_devices
  /\ failures < MaxFailures
  /\ (RecoveryCalls(e_type(msg)) = {}) => recovery_ok
  /\ failures' = failures + 1
  /\ recovery' = [cam |-> Top, msg |-> msg, calls |-> RecoveryCalls(e_type(msg)),
                  raised |-> ~recovery_ok]
  /\ IF recovery_ok
       THEN /\ camera_list' = <<>>
            /\ stack' = Append(stack, 1)
       ELSE /\ stack' = <<>>
            /\ UNCHANGED camera_list
  /\ UNCHANGED num_devices
  /\ UNCHANGED <<save_folder, queue_set, camVars, runVars, grabVars, evVars, devVars, iterVars>>

\* The for loop of the innermost call is exhausted and the call returns: to
\* the for loop of the call that made it, which goes on with its next device,
\* or to __post_init__, which sets __iter_end and acquiring.
set_up_returns ==
  /\ InSetup
  /\ Top > num_devices
  /\ IF Len(stack) = 1
       THEN /\ stack' = <<>>
            /\ iter_end' = Len(camera_list)
            /\ acquiring' = FALSE
       ELSE /\ stack' = [SubSeq(stack, 1, Len(stack) - 1) EXCEPT ![Len(stack) - 1] = @ + 1]
            /\ UNCHANGED <<iter_end, acquiring>>
  /\ UNCHANGED <<num_devices, failures, recovery>>
  /\ UNCHANGED <<iter_counter, loop_state, yielded, loops>>
  /\ UNCHANGED <<num_images, iter, i, pc, rounds, raised, exit_reason>>
  /\ UNCHANGED <<cfgVars, camVars, grabVars, evVars, devVars>>

\* A for statement over the Cameras object: __iter__ returns self
Cameras_iter ==
  /\ Returned
  /\ loop_state # "running"
  /\ loops < MaxLoops
  /\ loop_state' = "running"
  /\ yielded' = <<>>
  /\ loops' = loops + 1
  /\ UNCHANGED <<iter_counter, iter_end>>
  /\ UNCHANGED <<cfgVars, setupVars, camVars, runVars, grabVars, evVars, devVars>>

\* __next__, called by the running for statement
Cameras_next ==
  /\ loop_state = "running"
  /\ IF iter_end = 0 \/ iter_counter >= iter_end
       THEN /\ loop_state' = "finished"                 \* StopIteration
            /\ UNCHANGED <<iter_counter, yielded>>
       ELSE /\ iter_counter' = iter_counter + 1
            /\ IF iter_counter' <= Len(camera_list)
                 THEN /\ yielded' = Append(yielded, camera_list[iter_counter'])
                      /\ UNCHANGED loop_state
                 ELSE /\ loop_state' = "indexerror"     \* IndexError leaves the loop
                      /\ UNCHANGED yielded
  /\ UNCHANGED <<iter_end, loops>>
  /\ UNCHANGED <<cfgVars, setupVars, camVars, runVars, grabVars, evVars, devVars>>

\* The constructor has just called set_up_cams_and_correct_errors, the SDK
\* having enumerated at least one device.
SetupInit ==
  /\ InitCommon
  /\ camera_list = <<>>
  /\ save_folder = FALSE
  /\ queue_set = FALSE
  /\ dev = DefaultDev
  /\ num_devices \in 1..MaxCams
  /\ stack = <<1>>
  /\ failures = 0
  /\ recovery = NoRecovery
  /\ iter_counter = 0
  /\ iter_end = 0
  /\ loop_state = "none"
  /\ yielded = <<>>
  /\ loops = 0

SetupSteps ==
  \/ create_camera
  \/ \E msg \in Msgs, recovery_ok \in BOOLEAN : create_camera_fails(msg, recovery_ok)
  \/ set_up_returns

SetupNext ==
  \/ SetupSteps
  \/ Cameras_iter
  \/ Cameras_next
  \/ (Returned /\ loop_state # "running" /\ release_all_cameras)

SetupSpec == SetupInit /\ [][SetupNext]_vars

\* The constructor runs in the caller's thread with nothing to wait for but
\* the SDK and sleep(20): a setup step that can be taken is taken.
SetupLiveSpec == SetupInit /\ [][SetupNext]_vars /\ WF_vars(SetupSteps)

\* ------------------------------------------------------------------ claims
Attached(c) == u_callback_set[c] = "true"
Range(q) == {q[k] : k \in 1..Len(q)}
ListCams == Range(camera_list)
\* frames of camera c on the queue
Queued(c) == Cardinality({k \in 1..Len(queue) : queue[k] = c})

\* C1: a bounded run acquire_images(n), n >= 0, over a non-empty list of
\* cameras without a callback, in which no vendor exception is raised and no
\* interrupt arrives, returns after exactly n rounds, each camera having been
\* issued exactly n GetNextImage calls.
C1_PollingRunTakesNRounds ==
  (/\ pc = "done"
   /\ num_images >= 0
   /\ camera_list # <<>>
   /\ \A c \in ListCams : ~Attached(c)
   /\ raised = "none"
   /\ exit_reason # "interrupt")
  => (/\ rounds = num_images
      /\ \A c \in ListCams : grabs[c] = num_images)

C1_Witness ==
  /\ pc = "done"
  /\ num_images = MaxImages
  /\ Len(camera_list) = MaxCams
  /\ \A c \in ListCams : ~Attached(c)
  /\ raised = "none"
  /\ exit_reason = "count"
  /\ \A c \in ListCams : grabs[c] = MaxImages

C3_EventDrivenNeverPolled ==
  \A c \in Cams : Attached(c) => grabs[c] = 0

\* C4: between grabs and at return, every image GetNextImage returned has been
\* released exactly once, whatever happened to it (complete, incomplete,
\* conversion or save raising).
C4_EveryImageReleased ==
  pc \in {"while", "for", "done"} => \A c \in Cams : released[c] = obtained[c]

\* C5: a vendor exception raised by a grab does not end the run: the run ends
\* only by the round count, a handler quota or an interrupt.
C5_GrabExceptionDoesNotEndRun ==
  ~(pc = "done" /\ exit_reason = "exception" /\ raised = "grab")

\* C6: an incomplete frame has no delivery effect: the handler neither invokes
\* the sink for it nor counts it, and the polling loop neither saves it nor
\* puts it on the queue.
C6_IncompleteNotDelivered ==
  /\ \A c \in Cams :
       /\ sink_calls[c] <= ev_total[c] - ev_incomplete[c]
       /\ get_image_count(event_handler[c]) <= ev_total[c] - ev_incomplete[c]
  /\ \A c \in Cams :
       /\ saved[c] <= obtained[c] - incomplete[c]
       /\ Queued(c) <= obtained[c] - incomplete[c]

C6_Witness ==
  /\ Total(ev_incomplete) > 0
  /\ \E c \in Cams : sink_calls[c] > 0
  /\ \E c \in Cams : incomplete[c] > 0 /\ saved[c] > 0 /\ Queued(c) > 0

\* The node a clamping setter writes its numeric value to
NumericNode(setter) ==
  CASE setter = "set_frame_rate" -> "AcquisitionFrameRate"
    [] setter = "set_exposure" -> "ExposureTime"
    [] setter = "set_gain" -> "Gain"
    [] setter = "set_gamma" -> "Gamma"

\* C7: a setter called on an uninitialised camera returns False and issues no
\* SetValue on the device, whose node values stay as they were.
C7_UninitialisedSetterNoEffect ==
  (last.setter \in Setters /\ ~last.init)
  => (~last.ret /\ last.log = <<>> /\ dev = last.pre)

C7_Witness ==
  /\ last.setter = "set_trigger_mode"
  /\ ~last.init
  /\ last.pre = ConfiguredDev

\* C8: the numeric value set_frame_rate, set_exposure, set_gain and set_gamma
\* pass to SetValue, for a request v > 0 and a reported maximum M, is min(v, M).
C8_NumericWritesClamped ==
  (last.setter \in {"set_frame_rate", "set_exposure", "set_gain", "set_gamma"}
   /\ last.req > 0)
  => \A k \in 1..Len(last.log) :
       last.log[k][1] = NumericNode(last.setter)
       => last.log[k][2] = Min(last.req, last.max)

\* C9: a setter that finds a node it needs not read-write returns False and
\* leaves every node of the device at its value before the call.
C9_DeniedLeavesDeviceUnchanged ==
  (last.setter \in Setters /\ last.denied) => (~last.ret /\ dev = last.pre)

\* C10: a setter in which an SDK write raises returns False, lets no exception
\* out, and leaves every node of the device at its value before the call.
C10_RaiseLeavesDeviceUnchanged ==
  (last.setter \in Setters /\ last.raised)
  => (~last.ret /\ ~last.propagated /\ dev = last.pre)

C12_BoundedRunQueuesNFramesPerCamera ==
  (/\ pc = "done"
   /\ exit_reason = "count"
   /\ queue_set
   /\ num_images >= 0)
  => \A c \in ListCams : Queued(c) = num_images

\* C13: when acquire_images(n), n > 0, returns without an interrupt or a
\* vendor exception, every camera of the list with a callback attached has
\* delivered at least n frames to its sink.
C13_AttachedCamerasMetQuotaAtReturn ==
  (/\ pc = "done"
   /\ num_images > 0
   /\ exit_reason \notin {"interrupt", "exception", "nocams"})
  => \A c \in ListCams : Attached(c) => sink_calls[c] >= num_images

\* C14: when acquire_images has returned, by whatever path, every camera of
\* the list whose BeginAcquisition succeeded (the initialised ones) is still
\* streaming: no path through acquire_images ends the acquisition.
C14_StillStreamingAtReturn ==
  (pc = "done" /\ exit_reason # "nocams")
  => \A c \in ListCams : initialised[c] => streaming[c]

C14_Witness ==
  /\ pc = "done"
  /\ exit_reason = "exception"
  /\ raised = "convert"
  /\ Len(camera_list) = MaxCams
  /\ \A c \in ListCams : initialised[c] /\ streaming[c]

\* C15: acquire_images on an empty camera_list returns at once: the run is
\* over with no BeginAcquisition (no camera streams), no GetNextImage, no
\* round, and the acquiring flag still false.
C15_EmptyListReturnsAtOnce ==
  (pc # "idle" /\ camera_list = <<>>)
  => (/\ pc = "done"
      /\ exit_reason = "nocams"
      /\ ~acquiring
      /\ rounds = 0
      /\ \A c \in Cams : ~streaming[c] /\ grabs[c] = 0)

\* acquire_images called after release_all_cameras on initialised cameras
C15_Witness ==
  /\ pc = "done"
  /\ exit_reason = "nocams"
  /\ camera_list = <<>>
  /\ \E c \in Cams : initialised[c]

\* C16: once a KeyboardInterrupt has been handled the run is over with the
\* acquiring flag false, and no step after it issues a GetNextImage, saves a
\* frame or puts one on the queue.
C16_InterruptEndsRun ==
  [][exit_reason' = "interrupt"
     => (/\ pc' = "done"
         /\ ~acquiring'
         /\ exit_reason = "interrupt"
              => (grabs' = grabs /\ saved' = saved /\ queue' = queue))]_vars

\* an interrupt in the middle of a round of an unbounded run which had
\* already grabbed frames
C16_Witness ==
  /\ exit_reason = "interrupt"
  /\ pc = "done"
  /\ num_images = -1
  /\ Total(grabs) > 0
  /\ i > 1

\* C17: a call of initialise on an already initialised camera returns True,
\* does not call Init and changes nothing of any camera (initialised,
\* streaming, handler); any call that returns True leaves the camera
\* initialised, so that a second call in a row changes nothing.
C17_InitialiseIdempotent ==
  [][(calls' = calls + 1 /\ last'.setter = "initialise")
     => (/\ initialised'[last'.cam] = last'.ret
         /\ streaming' = streaming
         /\ event_handler' = event_handler
         /\ u_callback_set' = u_callback_set
         /\ initialised[last'.cam]
              => (/\ last'.ret
                  /\ last'.log = <<>>
                  /\ initialised' = initialised))]_vars

\* initialise called on an initialised, streaming camera with a handler
C17_Witness ==
  /\ last.setter = "initialise"
  /\ last.init
  /\ last.ret
  /\ last.streaming
  /\ initialised[last.cam]
  /\ streaming[last.cam]
  /\ event_handler[last.cam].registered

\* C18: deinitialise called on an initialised camera that is not streaming
\* returns True, lets no exception out and has called DeInit, after
\* UnregisterEventHandler when a callback was attached, whether or not a
\* callback was ever attached.
C18_DeinitialiseSucceedsWhenIdle ==
  (/\ last.setter = "deinitialise"
   /\ last.init
   /\ ~last.streaming)
  => (/\ last.ret
      /\ ~last.propagated
      /\ last.log \in {<<"DeInit">>, <<"UnregisterEventHandler", "DeInit">>})

\* C19: DeInit is not invoked on a streaming camera: where deinitialise or the
\* destructor calls DeInit, the camera was not streaming at the call or
\* EndAcquisition was called before DeInit.
C19_NoDeInitWhileStreaming ==
  last.setter \in {"deinitialise", "__del__"}
  => \A k \in 1..Len(last.log) :
       last.log[k] = "DeInit"
       => (~last.streaming \/ \E j \in 1..(k - 1) : last.log[j] = "EndAcquisition")

\* The setters that take a mode string
ModeSetters == {"set_acquisition_mode", "set_exposure", "set_white_balance",
                "set_gain", "set_stream_buffer_mode", "set_trigger_mode"}

\* C20: a setter that takes a mode string, given a string outside its
\* documented modes, returns False and issues no SetValue.
C20_UnknownModeRejected ==
  (last.setter \in ModeSetters /\ last.mode = "bad")
  => (~last.ret /\ last.log = <<>>)

\* The order of the writes of one set_trigger_mode call: TriggerSource is
\* written only after TriggerMode was written Off and before it is written
\* On; TriggerMode is written On only as the last write, right after a
\* hardware line 0-3 or the software source was written.
TriggerWritesOrdered(log) ==
  \A k \in 1..Len(log) :
    /\ log[k][1] = "TriggerSource"
         => /\ \E j \in 1..(k - 1) : log[j] = <<"TriggerMode", "Off">>
            /\ \A j \in 1..(k - 1) : log[j] # <<"TriggerMode", "On">>
    /\ log[k] = <<"TriggerMode", "On">>
         => /\ k = Len(log)
            /\ k > 1
            /\ log[k - 1][1] = "TriggerSource"
            /\ log[k - 1][2] \in {"Line0", "Line1", "Line2", "Line3", "Software"}

\* C23 as stated: in every set_trigger_mode call on an initialised camera the
\* writes are ordered Off, source, On, and after the call trigger mode is On
\* only if the call requested "on" and returned True.
C23_TriggerProtocol ==
  (last.setter = "set_trigger_mode" /\ last.init)
  => (/\ TriggerWritesOrdered(last.log)
      /\ dev["TriggerMode"] = "On" => (last.mode = "on" /\ last.ret))

\* C23 amended: the writes are ordered Off, source, On, and after a call whose
\* first write (TriggerMode Off) was accepted by the SDK trigger mode is On
\* only if the call requested "on" and returned True.
C23_TriggerProtocolOnceDisabled ==
  (last.setter = "set_trigger_mode" /\ last.init)
  => (/\ TriggerWritesOrdered(last.log)
      /\ (/\ last.log # <<>>
          /\ (Len(last.log) > 1 \/ ~last.raised)
          /\ dev["TriggerMode"] = "On")
         => (last.mode = "on" /\ last.ret))

C23_Witness ==
  /\ last.setter = "set_trigger_mode"
  /\ last.init
  /\ last.mode = "on"
  /\ last.ret
  /\ Len(last.log) = 4
  /\ dev["TriggerMode"] = "On"
  /\ dev["TriggerSource"] = "Line2"

\* C24: in a bounded run, whenever the loop visits a camera with a callback
\* attached while its handler's image count has reached or passed num_images,
\* the step taken at that visit issues no GetNextImage and leaves the
\* acquiring flag false.
C24_QuotaReachedOrPassedStopsRun ==
  [][(/\ pc = "for"
      /\ num_images >= 0
      /\ Attached(camera_list[i])
      /\ get_image_count(event_handler[camera_list[i]]) >= num_images)
     => (/\ grabs' = grabs
         /\ (pc' # pc \/ i' # i) => ~acquiring')]_vars

\* C28: whenever acquire_images has returned, by whatever path, the
\* acquiring flag is false.
C28_NotAcquiringAfterReturn ==
  pc = "done" => ~acquiring

\* C26: every image GetNextImage handed to get_next_image is either returned
\* to the caller or released: an incomplete one is released before None is
\* returned.
C26_ImageReturnedOrReleased ==
  (last.setter = "get_next_image" /\ last.mode \in {"incomplete", "complete"})
  => (last.ret \/ \E k \in 1..Len(last.log) : last.log[k] = "Release")

\* C29: a successful deinitialise of a camera whose handler is registered
\* unregisters it, and UnregisterEventHandler is never called for a handler
\* that is not registered (one an earlier deinitialise already unregistered).
C29_HandlerUnregisteredOnce ==
  last.setter = "deinitialise"
  => LET unregisters == \E k \in 1..Len(last.log) :
                          last.log[k] = "UnregisterEventHandler"
     IN /\ (last.ret /\ last.registered) => unregisters
        /\ unregisters => last.registered

\* C25: once the acquiring flag has been cleared inside a run over
\* initialised cameras, no further round is started and the run ends only at
\* the next check of the flag (the while test), never inside the round.
C25_StopIsCooperative ==
  [][(/\ ~acquiring
      /\ pc \in {"for", "while"}
      /\ \A c \in ListCams : initialised[c])
     => (/\ rounds' = rounds
         /\ pc' = "done" => (pc = "while" /\ exit_reason' = "flag"))]_vars

\* C21: when creating a Camera raises during setup, force_ip_by_cam is called
\* iff the message matches the wrong-subnet entry, reset_cam iff it matches the
\* out-of-range or the reconnect entry, neither when no entry matches; and in
\* every case set_up_cams_and_correct_errors is called again (the list is
\* emptied and a new enumeration starts).
C21_RecoveryByMatchThenRetry ==
  [][failures' # failures
     => (/\ ("force_ip_by_cam" \in recovery'.calls) <=> (pyspin_errors[1][1] \in recovery'.msg)
         /\ ("reset_cam" \in recovery'.calls)
              <=> (pyspin_errors[2][1] \in recovery'.msg \/ pyspin_errors[3][1] \in recovery'.msg)
         /\ Len(stack') = Len(stack) + 1
         /\ camera_list' = <<>>)]_vars

\* C22: with creation failing only finitely often, the constructor's call of
\* set_up_cams_and_correct_errors eventually returns, whatever the failures
\* were.
C22_SetupEventuallyReturns == <>Returned

\* C27: when set_up_cams_and_correct_errors returns to the constructor,
\* camera_list holds exactly one Camera per enumerated device, in enumeration
\* order, whatever failures and re-enumerations happened on the way.
C27_OneCameraPerDevice ==
  [][(InSetup /\ Returned') => camera_list' = [k \in 1..num_devices |-> k]]_vars

\* C30: no for statement over a Cameras object ends with an IndexError, and
\* one that ends normally has yielded exactly the cameras of camera_list, once
\* each and in list order; this holds of the first statement, of a later one
\* and of one run after release_all_cameras.
C30_EachLoopYieldsTheList ==
  [][loop_state = "running"
     => (/\ loop_state' # "indexerror"
         /\ loop_state' = "finished" => yielded' = camera_list')]_vars

====
